---- MODULE Spec2Model ----
(***************************************************************************)
(* URL shortener: the urls table (core/database.py), the short-code        *)
(* helpers (utils/shortener.py) and the request handlers                   *)
(* (api/routes/urls.py).  Every SQL statement that Database.execute runs   *)
(* and commits is one atomic step; a handler that issues several           *)
(* statements is a sequence of steps that other workers may interleave     *)
(* with (several server workers share one database file).                  *)
(***************************************************************************)
EXTENDS Integers, Sequences, FiniteSets, TLC

\* ------------------------------------------------------------------ bounds
\* rows the table may hold
MaxRows == 2
\* cap of a row's click counter
MaxClicks == 2
\* last value of the clock behind CURRENT_TIMESTAMP
MaxTime == 1
MaxInputLen == 3

\* ------------------------------------------------------- program constants
default_short_code_length == 6
max_short_code_length == 20
min_short_code_length == 3
max_attempts == 10
\* Field(min_length=3, max_length=20) of URLCreate.custom_code
schema_min_length == 3
schema_max_length == 20

\* Python's None and SQL's NULL, for a str-typed value
NULL == "NULL"
\* Python's None for an Optional[dict] (no row has id 0)
NoRecord == [id |-> 0]

\* the workers (server processes / direct callers of the store)
Workers == {"w1", "w2"}

\* ------------------------------------------------------------------ inputs
\* codes a caller may pass: a valid one, one with a character outside the
\* alphabet, one shorter than the minimum
InputCodes == {"abcdef", "a-c", "ab"}
\* custom codes of requests, one of which ends in a line feed (a JSON body
\* carries it as "abcde\n"; the schema's str field keeps it)
InputCodesNewline == {"abcde\n", "a-c", "ab"}

\* candidates random.choices may draw (strings of the default length)
GenCodes == {"abcdef", "Zz0Zz0"}
\* str(HttpUrl) of the request bodies
InputUrls == {"http://a.io/", "https://b.io/"}
\* url_data.expires_at: None or a datetime, here seconds of one fixed minute
InputExpires == {NULL, "0"}

\* ------------------------------------------------------- utils/shortener.py
Lower == {"a","b","c","d","e","f","g","h","i","j","k","l","m",
          "n","o","p","q","r","s","t","u","v","w","x","y","z"}
Upper == {"A","B","C","D","E","F","G","H","I","J","K","L","M",
          "N","O","P","Q","R","S","T","U","V","W","X","Y","Z"}
Digits == {"0","1","2","3","4","5","6","7","8","9"}
\* string.ascii_letters + string.digits
ALPHABET == Lower \cup Upper \cup Digits

Char(s, i) == SubSeq(s, i, i)

\* ALPHABET as the string random.choices indexes
AlphabetString == "abcdefghijklmnopqrstuvwxyzABCDEFGHIJKLMNOPQRSTUVWXYZ0123456789"

\* random.choices(population, k=k): k characters of the population, the
\* i-th at the index the random source yields for it (draws, taken in a
\* cycle)
RECURSIVE choices(_, _, _)
choices(population, k, draws) ==
    IF k <= 0 THEN ""
    ELSE choices(population, k - 1, draws)
         \o Char(population, draws[((k - 1) % Len(draws)) + 1])

\* the generator taking the default length whatever length it is given
generate_short_code_default_only(length, draws) ==
    choices(AlphabetString, default_short_code_length, draws)

\* generate_short_code(length) under the random source draws; length is the
\* Optional[int] argument: {} for None, {n} for n; "length or default"
\* takes the default for None and for 0
generate_short_code(length, draws) ==
    LET k == IF length = {} \/ length = {0}
             THEN default_short_code_length
             ELSE CHOOSE n \in length : TRUE
    IN  choices(AlphabetString, k, draws)

\* re.match(r"^[a-zA-Z0-9]+$", code): one or more characters of the class,
\* then the end of the string; "$" also matches just before one trailing
\* newline
ReMatchAlnum(code) ==
    LET n == Len(code)
        body == IF n > 0 /\ Char(code, n) = "\n" THEN n - 1 ELSE n
    IN  /\ body >= 1
        /\ \A i \in 1..body : Char(code, i) \in ALPHABET

validate_short_code(code) ==
    IF code = "" THEN FALSE
    ELSE IF Len(code) < min_short_code_length \/ Len(code) > max_short_code_length
         THEN FALSE
    ELSE IF ~ReMatchAlnum(code) THEN FALSE
    ELSE TRUE

\* str.strip(): leading and trailing whitespace removed
Whitespace == {" ", "\t", "\n", "\r"}
RECURSIVE LStrip(_)
LStrip(s) ==
    IF Len(s) > 0 /\ Char(s, 1) \in Whitespace
    THEN LStrip(SubSeq(s, 2, Len(s))) ELSE s
RECURSIVE RStrip(_)
RStrip(s) ==
    IF Len(s) > 0 /\ Char(s, Len(s)) \in Whitespace
    THEN RStrip(SubSeq(s, 1, Len(s) - 1)) ELSE s
Strip(s) == RStrip(LStrip(s))

StartsWith(s, p) == Len(s) >= Len(p) /\ SubSeq(s, 1, Len(p)) = p

\* the normalisation that puts "https://" in front of whatever it is given
normalize_url_always_prefix(url) == "https://" \o Strip(url)

\* the normalisation trimming the left end only
normalize_url_lstrip_only(url) ==
    LET u == LStrip(url)
    IN  IF ~(StartsWith(u, "http://") \/ StartsWith(u, "https://"))
        THEN "https://" \o u ELSE u

normalize_url(url) ==
    LET u == Strip(url)
    IN  IF ~(StartsWith(u, "http://") \/ StartsWith(u, "https://"))
        THEN "https://" \o u ELSE u

\* str.rstrip("/"): every trailing slash removed
RECURSIVE RStripSlash(_)
RStripSlash(s) ==
    IF Len(s) > 0 /\ Char(s, Len(s)) = "/"
    THEN RStripSlash(SubSeq(s, 1, Len(s) - 1)) ELSE s

\* the short url built with only one trailing slash of the base removed
create_short_url_strip_one(base_url, short_code) ==
    (IF Len(base_url) > 0 /\ Char(base_url, Len(base_url)) = "/"
     THEN SubSeq(base_url, 1, Len(base_url) - 1) ELSE base_url)
    \o "/" \o short_code

\* f"{base_url.rstrip('/')}/{short_code}"
create_short_url(base_url, short_code) == RStripSlash(base_url) \o "/" \o short_code

\* the date, hour and minute all modelled timestamps lie in, up to the tens
\* of the seconds
IsoMinute == "2030-01-01T00:00:0"

\* datetime.isoformat() of an expiration inside the modelled minute
isoformat(dt) == IsoMinute \o dt

\* str.replace("Z", "+00:00"): every "Z" of the string is replaced
RECURSIVE ReplaceZ(_)
ReplaceZ(s) ==
    IF s = "" THEN ""
    ELSE (IF Char(s, 1) = "Z" THEN "+00:00" ELSE Char(s, 1))
         \o ReplaceZ(SubSeq(s, 2, Len(s)))

\* datetime.fromisoformat on timestamps of the modelled minute: the second
\* and whether an offset was given, or ValueError for any other string
ValueError == [ok |-> FALSE]
fromisoformat(s) ==
    LET n == Len(IsoMinute)
        second(d) == CHOOSE k \in 0..9 : ToString(k) = d
    IN  IF Len(s) = n + 1 /\ SubSeq(s, 1, n) = IsoMinute /\ Char(s, n + 1) \in Digits
        THEN [ok |-> TRUE, second |-> second(Char(s, n + 1)), tzinfo |-> NULL]
        ELSE IF /\ Len(s) = n + 7
                /\ SubSeq(s, 1, n) = IsoMinute
                /\ Char(s, n + 1) \in Digits
                /\ SubSeq(s, n + 2, n + 7) = "+00:00"
        THEN [ok |-> TRUE, second |-> second(Char(s, n + 1)), tzinfo |-> "UTC"]
        ELSE ValueError

\* the expiry test taken for "not later than": a url is expired from the
\* very second of its expiration
is_url_expired_at_equal(expires_at, clock) ==
    IF expires_at = NULL \/ expires_at = "" THEN FALSE
    ELSE LET expire_time == fromisoformat(ReplaceZ(expires_at))
         IN  IF ~expire_time.ok THEN FALSE
             ELSE clock >= expire_time.second

\* is_url_expired, with clock the second datetime.now(expire_time.tzinfo)
\* reads: "not expires_at" covers None and "", a ValueError is swallowed
is_url_expired(expires_at, clock) ==
    IF expires_at = NULL \/ expires_at = "" THEN FALSE
    ELSE LET expire_time == fromisoformat(ReplaceZ(expires_at))
         IN  IF ~expire_time.ok THEN FALSE
             ELSE clock > expire_time.second

\* a row that takes the first id whatever the table holds
NewRowFirstId(t, original_url, short_code, expires_at, ts) ==
    [id |-> 1,
     original_url |-> original_url,
     short_code |-> short_code,
     created_at |-> ts,
     expires_at |-> expires_at,
     clicks |-> 0,
     is_active |-> 1]

\* ------------------------------------------------------- core/database.py
\* the columns of CREATE TABLE urls with their defaults
NewRow(t, original_url, short_code, expires_at, ts) ==
    [id |-> Len(t) + 1,
     original_url |-> original_url,
     short_code |-> short_code,
     created_at |-> ts,
     expires_at |-> expires_at,
     clicks |-> 0,
     is_active |-> 1]

\* the constraint as a partial index over the active rows only
UniqueOkActiveOnly(t, short_code) ==
    \A i \in DOMAIN t : t[i].is_active = 1 => t[i].short_code # short_code

\* short_code TEXT NOT NULL UNIQUE: may a row with this code be inserted?
UniqueOk(t, short_code) == \A i \in DOMAIN t : t[i].short_code # short_code

\* the INSERT with its first two values in the wrong order
SqlInsertSwapped(t, original_url, short_code, expires_at, ts) ==
    Append(t, [id |-> Len(t) + 1, original_url |-> short_code,
               short_code |-> original_url, created_at |-> ts,
               expires_at |-> expires_at, clicks |-> 0, is_active |-> 1])

\* INSERT INTO urls (original_url, short_code, expires_at) VALUES (?, ?, ?)
SqlInsert(t, original_url, short_code, expires_at, ts) ==
    Append(t, NewRow(t, original_url, short_code, expires_at, ts))

\* a lookup that hides every row carrying an expiration
get_url_by_code_unexpiring_only(t, short_code) ==
    LET results == SelectSeq(t, LAMBDA r : /\ r.short_code = short_code
                                           /\ r.is_active = 1
                                           /\ r.expires_at = NULL)
    IN  IF results # <<>> THEN results[1] ELSE NoRecord

\* the lookup without its "AND is_active = 1"
get_url_by_code_any_row(t, short_code) ==
    LET results == SelectSeq(t, LAMBDA r : r.short_code = short_code)
    IN  IF results # <<>> THEN results[1] ELSE NoRecord

\* SELECT * FROM urls WHERE short_code = ? AND is_active = 1
get_url_by_code(t, short_code) ==
    LET results == SelectSeq(t, LAMBDA r : r.short_code = short_code /\ r.is_active = 1)
    IN  IF results # <<>> THEN results[1] ELSE NoRecord

\* the existence query restricted to active rows
url_exists_active_only(t, short_code) ==
    LET results == SelectSeq(t, LAMBDA r : r.short_code = short_code /\ r.is_active = 1)
    IN  IF results # <<>> THEN Len(results) > 0 ELSE FALSE

\* the existence query comparing the wrong column
url_exists_wrong_column(t, short_code) ==
    LET results == SelectSeq(t, LAMBDA r : r.original_url = short_code)
    IN  IF results # <<>> THEN Len(results) > 0 ELSE FALSE

\* SELECT 1 FROM urls WHERE short_code = ?
url_exists(t, short_code) ==
    LET results == SelectSeq(t, LAMBDA r : r.short_code = short_code)
    IN  IF results # <<>> THEN Len(results) > 0 ELSE FALSE

\* the update written as a replacement of the row: its counter starts over
SqlUpdateUrlResetClicks(t, short_code, new_original_url) ==
    [i \in DOMAIN t |->
        IF t[i].short_code = short_code
        THEN [t[i] EXCEPT !.original_url = new_original_url, !.clicks = 0] ELSE t[i]]

\* the UPDATE of update_url without its WHERE clause
SqlUpdateUrlNoWhere(t, short_code, new_original_url) ==
    [i \in DOMAIN t |-> [t[i] EXCEPT !.original_url = new_original_url]]

\* UPDATE urls SET original_url = ? WHERE short_code = ?
SqlUpdateUrl(t, short_code, new_original_url) ==
    [i \in DOMAIN t |->
        IF t[i].short_code = short_code
        THEN [t[i] EXCEPT !.original_url = new_original_url] ELSE t[i]]

\* the soft delete clearing the counter along with the flag
SqlDeleteResetClicks(t, short_code) ==
    [i \in DOMAIN t |->
        IF t[i].short_code = short_code
        THEN [t[i] EXCEPT !.is_active = 0, !.clicks = 0] ELSE t[i]]

\* the delete written as DELETE FROM urls WHERE short_code = ?
SqlDeleteErase(t, short_code) == SelectSeq(t, LAMBDA r : r.short_code # short_code)

\* the soft delete written as a toggle of the flag
SqlDeleteToggle(t, short_code) ==
    [i \in DOMAIN t |->
        IF t[i].short_code = short_code
        THEN [t[i] EXCEPT !.is_active = 1 - @] ELSE t[i]]

\* UPDATE urls SET is_active = 0 WHERE short_code = ?
SqlDelete(t, short_code) ==
    [i \in DOMAIN t |->
        IF t[i].short_code = short_code
        THEN [t[i] EXCEPT !.is_active = 0] ELSE t[i]]

\* cursor.rowcount of an UPDATE ... WHERE short_code = ?: the rows matched
RowCount(t, short_code) ==
    Cardinality({i \in DOMAIN t : t[i].short_code = short_code})

\* the counter update adding two per call
SqlIncrementClicksTwice(t, short_code) ==
    [i \in DOMAIN t |->
        IF t[i].short_code = short_code
        THEN [t[i] EXCEPT !.clicks = @ + 2] ELSE t[i]]

\* the increment without its WHERE clause: every row is counted up
SqlIncrementClicksNoWhere(t, short_code) ==
    [i \in DOMAIN t |-> [t[i] EXCEPT !.clicks = @ + 1]]

\* UPDATE urls SET clicks = clicks + 1 WHERE short_code = ?
SqlIncrementClicks(t, short_code) ==
    [i \in DOMAIN t |->
        IF t[i].short_code = short_code
        THEN [t[i] EXCEPT !.clicks = @ + 1] ELSE t[i]]

\* ORDER BY created_at DESC: the rows from the latest created_at down; SQL
\* leaves the order of rows with equal created_at open, so the result is one
\* of a set of sequences
RECURSIVE OrderByCreatedAtDesc(_)
OrderByCreatedAtDesc(rows) ==
    IF rows = <<>> THEN {<<>>}
    ELSE LET latest == {i \in DOMAIN rows :
                          \A j \in DOMAIN rows : rows[j].created_at <= rows[i].created_at}
             Without(i) == SubSeq(rows, 1, i - 1) \o SubSeq(rows, i + 1, Len(rows))
         IN  UNION {{<<rows[i]>> \o rest : rest \in OrderByCreatedAtDesc(Without(i))} :
                    i \in latest}

\* the listing without its "WHERE is_active = 1"
get_all_urls_unfiltered(t) == OrderByCreatedAtDesc(t)

\* SELECT * FROM urls WHERE is_active = 1 ORDER BY created_at DESC: the
\* lists the query may return
get_all_urls(t) == OrderByCreatedAtDesc(SelectSeq(t, LAMBDA r : r.is_active = 1))

\* delete_url reporting success whatever the UPDATE matched
delete_url_any_rowcount(t, short_code) == RowCount(t, short_code) >= 0

\* cursor.rowcount of an UPDATE ... WHERE short_code = ?: the rows matched
\* Database.delete_url: "deleted = cursor.rowcount > 0; return deleted > 0"
delete_url(t, short_code) == RowCount(t, short_code) > 0

\* ---------------------------------------------------------------- responses
\* an HTTP response of a handler: HTTPException(status, detail) or the body
Http(status, detail, body) ==
    [kind |-> "http", status |-> status, detail |-> detail, exc |-> "none", body |-> body]
\* main.py's handler: an exception that is no HTTPException becomes a 500
general_exception_handler(exc) ==
    [kind |-> "http", status |-> 500, detail |-> "Internal server error",
     exc |-> exc, body |-> NoRecord]
\* a direct call of a Database method: its return value, or what it raised
Returned(v) == [kind |-> "return", value |-> v]
Raised(exc) == [kind |-> "raise", exc |-> exc]
\* the handler has not answered yet: it goes on to its next statement
Proceed == [kind |-> "proceed"]

NotFound == Http(404, "Short URL not found", NoRecord)

\* the operations that are HTTP handlers; the others are direct calls of
\* the Database methods
EndpointOps == {"shorten", "redirect", "delete", "put", "info"}

\* the call a worker serves
Req(op, short_code, original_url, expires_at) ==
    [op |-> op, short_code |-> short_code, original_url |-> original_url,
     expires_at |-> expires_at]
NoReq == [op |-> "none"]

\* expires_at = url_data.expires_at.isoformat() if url_data.expires_at else None
ExpiresArg(exp) == IF exp = NULL THEN NULL ELSE isoformat(exp)

\* create_short_url_endpoint with a custom code, up to db.create_url: the
\* schema's length check, validate_short_code, the url_exists pre-check
ShortenCustomResponse(t, code) ==
    IF Len(code) < schema_min_length \/ Len(code) > schema_max_length
    THEN Http(422, "String length out of bounds", NoRecord)
    ELSE IF ~validate_short_code(code)
    THEN Http(400, "Custom code must be 3-20 alphanumeric characters", NoRecord)
    ELSE IF url_exists(t, code)
    THEN Http(409, "Short code already exists", NoRecord)
    ELSE Proceed

\* the for loop goes on to its next candidate
Retry == [kind |-> "retry"]

\* the answer after the loop's else branch: every candidate was taken
Exhausted == Http(500, "Failed to generate unique short code", NoRecord)

\* a loop that draws one candidate more than range(max_attempts)
GenerateResponseOneMore(t, c, n) ==
    IF ~url_exists(t, c) THEN Proceed
    ELSE IF n < max_attempts THEN Retry
    ELSE Exhausted

\* one pass of "for _ in range(max_attempts)" with candidate c after n
\* rejected candidates: break, next pass, or the loop's else branch
GenerateResponse(t, c, n) ==
    IF ~url_exists(t, c) THEN Proceed
    ELSE IF n + 1 < max_attempts THEN Retry
    ELSE Exhausted

\* Database.create_url, its INSERT: sqlite3.IntegrityError from the UNIQUE
\* constraint is caught nowhere, so a handler answers through
\* general_exception_handler and a direct caller sees the exception
InsertResponse(t, r) ==
    IF ~UniqueOk(t, r.short_code)
    THEN IF r.op \in EndpointOps THEN general_exception_handler("IntegrityError")
         ELSE Raised("IntegrityError")
    ELSE Proceed

\* str(request.base_url) of a request to the service root, as the test
\* client sends it
RequestBaseUrl == "http://testserver/"

\* get_base_url(request)
get_base_url(request_base_url) == RStripSlash(request_base_url)

\* the body of URLCreateResponse
CreateBody(r, rec) ==
    [original_url |-> r.original_url, short_code |-> r.short_code,
     short_url |-> create_short_url(get_base_url(RequestBaseUrl), r.short_code),
     created_at |-> rec.created_at, expires_at |-> rec.expires_at]

\* Database.create_url's "return self.get_url_by_code(short_code)" and the
\* handler's url_record["created_at"], a TypeError when url_record is None
CreateRereadResponse(t, r) ==
    LET rec == get_url_by_code(t, r.short_code)
    IN  IF r.op \notin EndpointOps THEN Returned(rec)
        ELSE IF rec = NoRecord THEN general_exception_handler("TypeError")
        ELSE Http(201, "", CreateBody(r, rec))

\* the body of URLInfoResponse as update_short_url builds it
UpdateBody(r, rec) ==
    [original_url |-> r.original_url, short_code |-> r.short_code,
     short_url |-> create_short_url(get_base_url(RequestBaseUrl), r.short_code),
     created_at |-> rec.created_at, expires_at |-> rec.expires_at,
     clicks |-> rec.clicks, is_active |-> rec.is_active]

\* update_short_url up to db.update_url: validate_short_code, then the
\* existence check through get_url_by_code
PutStartResponse(t, code) ==
    IF ~validate_short_code(code) THEN NotFound
    ELSE IF get_url_by_code(t, code) = NoRecord THEN NotFound
    ELSE Proceed

\* Database.update_url's "return self.get_url_by_code(short_code)" and the
\* handler's url_record["created_at"]
UpdateRereadResponse(t, r) ==
    LET rec == get_url_by_code(t, r.short_code)
    IN  IF r.op \notin EndpointOps THEN Returned(rec)
        ELSE IF rec = NoRecord THEN general_exception_handler("TypeError")
        ELSE Http(200, "", UpdateBody(r, rec))

\* delete_short_url: validate_short_code, then db.delete_url decides
DeleteResponse(t, code) ==
    IF ~validate_short_code(code) THEN NotFound
    ELSE IF ~delete_url(t, code) THEN NotFound
    ELSE Http(200, "URL deleted successfully", NoRecord)

\* redirect_to_url up to db.increment_clicks: validate_short_code, lookup
RedirectStartResponse(t, code) ==
    IF ~validate_short_code(code) THEN NotFound
    ELSE IF get_url_by_code(t, code) = NoRecord THEN NotFound
    ELSE Proceed

\* redirect_to_url's RedirectResponse, built from the row read at the lookup
RedirectResponse(rec) == Http(302, "", [location |-> rec.original_url])

\* get_url_info
InfoResponse(t, code) ==
    LET rec == get_url_by_code(t, code)
    IN  IF ~validate_short_code(code) THEN NotFound
        ELSE IF rec = NoRecord THEN NotFound
        ELSE Http(200, "", [original_url |-> rec.original_url, short_code |-> code,
                            short_url |-> create_short_url(get_base_url(RequestBaseUrl), code),
                            created_at |-> rec.created_at, expires_at |-> rec.expires_at,
                            clicks |-> rec.clicks, is_active |-> (rec.is_active # 0)])

\* list_urls: one item per row of db.get_all_urls(), in its order; the
\* answers the handler may give
ListResponse(t) ==
    {Http(200, "",
          [k \in DOMAIN rows |->
              [original_url |-> rows[k].original_url,
               short_code |-> rows[k].short_code,
               short_url |-> create_short_url(get_base_url(RequestBaseUrl), rows[k].short_code),
               created_at |-> rows[k].created_at,
               expires_at |-> rows[k].expires_at,
               clicks |-> rows[k].clicks,
               is_active |-> (rows[k].is_active # 0)]]) :
        rows \in get_all_urls(t)}

\* ------------------------------------------------------------------- state
VARIABLES
    urls,        \* the urls table: its rows in rowid order
    now,         \* the clock CURRENT_TIMESTAMP reads
    pc,          \* pc[w]: where worker w stands in the call it serves
    req,         \* req[w]: that call (operation and arguments)
    url_record,  \* url_record[w]: the row redirect_to_url read at its lookup
    attempt,     \* attempt[w]: iterations of the generation loop already run
    incCalls,    \* incCalls[c]: increment_clicks(c) calls that found a row of c
    call         \* a call of a function of utils/shortener.py and its result

vars == <<urls, now, pc, req, url_record, attempt, incCalls, call>>

AllCodes == InputCodes \cup GenCodes \cup InputCodesNewline

\* no function of utils/shortener.py is being called on its own
NoCall == [fn |-> "none"]

\* the store after init_db: an empty table, every worker free
InitStore ==
    /\ urls = <<>>
    /\ now = 0
    /\ pc = [w \in Workers |-> "idle"]
    /\ req = [w \in Workers |-> NoReq]
    /\ url_record = [w \in Workers |-> NoRecord]
    /\ attempt = [w \in Workers |-> 0]
    /\ incCalls = [c \in AllCodes |-> 0]

Init ==
    /\ InitStore
    /\ call = NoCall

\* worker w takes call r and stands at p
Begin(w, r, p) ==
    /\ pc' = [pc EXCEPT ![w] = p]
    /\ req' = [req EXCEPT ![w] = r]

\* worker w's call has answered: w is free again
End(w) ==
    /\ pc' = [pc EXCEPT ![w] = "idle"]
    /\ req' = [req EXCEPT ![w] = NoReq]

\* the clock advances
Tick ==
    /\ now < MaxTime
    /\ now' = now + 1
    /\ UNCHANGED <<urls, pc, req, url_record, attempt, incCalls, call>>

\* ---------------------------------------------------- create: POST /shorten
\* a request with a custom code that passes the checks goes on to the INSERT
\* (one answered by ShortenCustomResponse changes nothing)
ShortenCustom(w, url, code, exp) ==
    /\ pc[w] = "idle"
    /\ ShortenCustomResponse(urls, code) = Proceed
    /\ Begin(w, Req("shorten", code, normalize_url(url), ExpiresArg(exp)), "insert")
    /\ UNCHANGED <<urls, now, url_record, attempt, incCalls, call>>

\* a request without a custom code enters the generation loop
ShortenGenerate(w, url, exp) ==
    /\ pc[w] = "idle"
    /\ Begin(w, Req("shorten", NULL, normalize_url(url), ExpiresArg(exp)), "generate")
    /\ attempt' = [attempt EXCEPT ![w] = 0]
    /\ UNCHANGED <<urls, now, url_record, incCalls, call>>

\* one iteration of "for _ in range(max_attempts)": generate_short_code()
\* draws c and url_exists(c) decides; the for's else answers 500
GenerateAttempt(w, c) ==
    /\ pc[w] = "generate"
    /\ Len(c) = default_short_code_length
    /\ IF GenerateResponse(urls, c, attempt[w]) = Proceed
       THEN /\ req' = [req EXCEPT ![w].short_code = c]
            /\ pc' = [pc EXCEPT ![w] = "insert"]
            /\ attempt' = [attempt EXCEPT ![w] = 0]
       ELSE IF GenerateResponse(urls, c, attempt[w]) = Retry
       THEN /\ attempt' = [attempt EXCEPT ![w] = @ + 1]
            /\ UNCHANGED <<pc, req>>
       ELSE /\ End(w)
            /\ attempt' = [attempt EXCEPT ![w] = 0]
    /\ UNCHANGED <<urls, now, url_record, incCalls, call>>

\* Database.create_url's INSERT for call r: committed, or refused by the
\* UNIQUE constraint, which ends the call (InsertResponse)
InsertStep(w, r) ==
    IF InsertResponse(urls, r) # Proceed
    THEN End(w) /\ UNCHANGED urls
    ELSE /\ Len(urls) < MaxRows
         /\ urls' = SqlInsert(urls, r.original_url, r.short_code, r.expires_at, now)
         /\ Begin(w, r, "created")

\* the handler reaches db.create_url(original_url, short_code, expires_at)
CreateInsert(w) ==
    /\ pc[w] = "insert"
    /\ InsertStep(w, req[w])
    /\ UNCHANGED <<now, url_record, attempt, incCalls, call>>

\* a direct call db.create_url(url, code, expires_at)
DbCreateUrl(w, url, code, exp) ==
    /\ pc[w] = "idle"
    /\ InsertStep(w, Req("create_url", code, url, exp))
    /\ UNCHANGED <<now, url_record, attempt, incCalls, call>>

\* create_url's re-read of the row; the call answers CreateRereadResponse
CreateReread(w) ==
    /\ pc[w] = "created"
    /\ End(w)
    /\ UNCHANGED <<urls, now, url_record, attempt, incCalls, call>>

\* -------------------------------------------------- update: PUT /{code}
\* a request whose code names an active row goes on to the UPDATE
PutStart(w, code, url) ==
    /\ pc[w] = "idle"
    /\ PutStartResponse(urls, code) = Proceed
    /\ Begin(w, Req("put", code, normalize_url(url), NULL), "update")
    /\ UNCHANGED <<urls, now, url_record, attempt, incCalls, call>>

\* Database.update_url's UPDATE for call r
UpdateStep(w, r) ==
    /\ urls' = SqlUpdateUrl(urls, r.short_code, r.original_url)
    /\ Begin(w, r, "updated")

\* the handler reaches db.update_url(short_code, original_url)
UpdateWrite(w) ==
    /\ pc[w] = "update"
    /\ UpdateStep(w, req[w])
    /\ UNCHANGED <<now, url_record, attempt, incCalls, call>>

\* a direct call db.update_url(code, url)
DbUpdateUrl(w, code, url) ==
    /\ pc[w] = "idle"
    /\ UpdateStep(w, Req("update_url", code, url, NULL))
    /\ UNCHANGED <<now, url_record, attempt, incCalls, call>>

\* update_url's re-read of the row; the call answers UpdateRereadResponse
UpdateReread(w) ==
    /\ pc[w] = "updated"
    /\ End(w)
    /\ UNCHANGED <<urls, now, url_record, attempt, incCalls, call>>

\* ------------------------------------------------ delete: DELETE /{code}
\* delete_short_url with a code that passes validate_short_code: the one
\* UPDATE of Database.delete_url; the call answers DeleteResponse
Delete(w, code) ==
    /\ pc[w] = "idle"
    /\ validate_short_code(code)
    /\ urls' = SqlDelete(urls, code)
    /\ UNCHANGED <<now, pc, req, url_record, attempt, incCalls, call>>

\* a direct call db.delete_url(code); it returns delete_url(urls, code)
DbDeleteUrl(w, code) ==
    /\ pc[w] = "idle"
    /\ urls' = SqlDelete(urls, code)
    /\ UNCHANGED <<now, pc, req, url_record, attempt, incCalls, call>>

\* ------------------------------------------------- redirect: GET /{code}
\* a request whose code names an active row keeps that row and goes on to
\* db.increment_clicks
RedirectStart(w, code) ==
    /\ pc[w] = "idle"
    /\ RedirectStartResponse(urls, code) = Proceed
    /\ Begin(w, Req("redirect", code, NULL, NULL), "increment")
    /\ url_record' = [url_record EXCEPT ![w] = get_url_by_code(urls, code)]
    /\ UNCHANGED <<urls, now, attempt, incCalls, call>>

\* Database.increment_clicks: its single UPDATE
IncrementStep(code) ==
    /\ \A i \in DOMAIN urls : urls[i].short_code = code => urls[i].clicks < MaxClicks
    /\ urls' = SqlIncrementClicks(urls, code)
    /\ incCalls' = IF \E i \in DOMAIN urls : urls[i].short_code = code
                   THEN [incCalls EXCEPT ![code] = @ + 1] ELSE incCalls

\* the handler reaches db.increment_clicks(short_code), then answers
\* RedirectResponse(url_record)
RedirectIncrement(w) ==
    /\ pc[w] = "increment"
    /\ IncrementStep(req[w].short_code)
    /\ End(w)
    /\ url_record' = [url_record EXCEPT ![w] = NoRecord]
    /\ UNCHANGED <<now, attempt, call>>

\* a direct call db.increment_clicks(code)
DbIncrementClicks(w, code) ==
    /\ pc[w] = "idle"
    /\ IncrementStep(code)
    /\ UNCHANGED <<now, pc, req, url_record, attempt, call>>

\* ------------------------------------------------------------ specification
\* create_url's callers pass it codes that validate_short_code accepts: the
\* handler passes a validated custom code or a generated one
StoreCodes(Codes) == {c \in Codes : validate_short_code(c)}

\* the steps of the workers on requests drawn from the given inputs
Step(Urls, Codes, Exps) ==
    \E w \in Workers :
        \/ \E url \in Urls, code \in Codes, exp \in Exps : ShortenCustom(w, url, code, exp)
        \/ \E url \in Urls, exp \in Exps : ShortenGenerate(w, url, exp)
        \/ \E c \in GenCodes : GenerateAttempt(w, c)
        \/ CreateInsert(w)
        \/ \E url \in Urls, code \in StoreCodes(Codes), exp \in Exps :
              DbCreateUrl(w, url, code, ExpiresArg(exp))
        \/ CreateReread(w)
        \/ \E code \in Codes, url \in Urls : PutStart(w, code, url)
        \/ UpdateWrite(w)
        \/ \E code \in Codes, url \in Urls : DbUpdateUrl(w, code, url)
        \/ UpdateReread(w)
        \/ \E code \in Codes : Delete(w, code)
        \/ \E code \in Codes : DbDeleteUrl(w, code)
        \/ \E code \in Codes : RedirectStart(w, code)
        \/ RedirectIncrement(w)
        \/ \E code \in Codes : DbIncrementClicks(w, code)

\* the store under concurrent requests, none of which carries an expiration
Next ==
    \/ Tick
    \/ Step(InputUrls, InputCodes, {NULL})

\* the store under concurrent requests whose codes may end in a line feed
NextNewline ==
    \/ Tick
    \/ Step({"http://a.io/"}, InputCodesNewline, {NULL})

SpecNewline == Init /\ [][NextNewline]_vars

\* the store under concurrent requests that may carry an expiration, while
\* the clock passes it
NextExpires ==
    \/ Tick
    \/ Step({"http://a.io/"}, {"abcdef", "ab"}, InputExpires)

SpecExpires == Init /\ [][NextExpires]_vars

Spec == Init /\ [][Next]_vars

\* ------------------------------------- utils/shortener.py called on its own
\* the characters of the argument strings: a letter of each case, a digit,
\* a character outside the class, a blank and a line feed
InputChars == {"a", "Z", "0", "-", " ", "\n"}

\* the strings over InputChars of length up to n
RECURSIVE InputStrings(_)
InputStrings(n) ==
    IF n = 0 THEN {""}
    ELSE LET shorter == InputStrings(n - 1)
         IN  shorter \cup {s \o c : s \in {x \in shorter : Len(x) = n - 1}, c \in InputChars}

RECURSIVE Repeat(_, _)
Repeat(c, n) == IF n = 0 THEN "" ELSE c \o Repeat(c, n - 1)

\* strings around the upper length bound, ending in a character of the
\* class, in one outside it, or in a line feed
LongCodes ==
    {Repeat("a", n) \o tail :
        n \in (max_short_code_length - 2)..max_short_code_length,
        tail \in {"9", "-", "\n"}}

\* the arguments of validate_short_code
ValidateInputs == InputStrings(MaxInputLen) \cup LongCodes

\* a call of function fn on argument arg that has not returned yet
Call(fn, arg) == [fn |-> fn, arg |-> arg, done |-> FALSE, result |-> NULL]

ValidateCalls == {Call("validate_short_code", s) : s \in ValidateInputs}

\* the index sequences the random source may yield: they spell "abcdef",
\* "Zz0" and "9"
RandomDraws == {<<1, 2, 3, 4, 5, 6>>, <<52, 26, 53>>, <<62>>}

\* the length arguments of generate_short_code: none, 0, and every length
\* from 1 to one above the upper bound
GenerateLengths == {{}} \cup {{n} : n \in 0..(max_short_code_length + 1)}

GenerateCalls ==
    {Call("generate_short_code", [length |-> l, draws |-> d]) :
        l \in GenerateLengths, d \in RandomDraws}

\* the arguments of normalize_url: a core with or without a scheme, in
\* either case of letters, between runs of whitespace
NormalizeInputs ==
    {lead \o core \o trail :
        lead \in {"", " ", "\n", " \t"},
        core \in {"", "a.io", "http://a.io/", "https://b.io/", "HTTP://a.io",
                  "http:/a.io", "a b", "https:/", "xhttp://a.io"},
        trail \in {"", " ", "\r\n", "\t "}}

NormalizeCalls == {Call("normalize_url", s) : s \in NormalizeInputs}

\* the arguments of is_url_expired: None, strings that are no timestamp,
\* and timestamps of the modelled minute, naive, with "Z", with an offset, or
\* followed by something more
ExpiredInputs ==
    {NULL, "", "garbage", IsoMinute, IsoMinute \o "Z", "Z" \o IsoMinute \o "1"}
    \cup {IsoMinute \o d \o z : d \in {"0", "1", "2"}, z \in {"", "Z", "+00:00", "ZZ", " "}}

ExpiredCalls == {Call("is_url_expired", e) : e \in ExpiredInputs}

\* the arguments of create_short_url: bases with no, one or several
\* trailing slashes, and codes with and without a slash
CreateShortUrlCalls ==
    {Call("create_short_url", [base_url |-> b, short_code |-> c]) :
        b \in {"", "/", "http://h", "http://h/", "http://h//", "http://h/p///",
               "//x/", RequestBaseUrl},
        c \in {"", "abc", "a/b", "/", "Zz0Zz0"}}

\* a test or a handler is about to call a function of utils/shortener.py
InitShortener ==
    /\ InitStore
    /\ \/ call \in ValidateCalls
       \/ call \in GenerateCalls
       \/ call \in NormalizeCalls
       \/ call \in ExpiredCalls
       \/ call \in CreateShortUrlCalls

\* the call returns
CallValidateShortCode ==
    /\ call.fn = "validate_short_code"
    /\ ~call.done
    /\ call' = [call EXCEPT !.done = TRUE, !.result = validate_short_code(call.arg)]
    /\ UNCHANGED <<urls, now, pc, req, url_record, attempt, incCalls>>

\* the call returns
CallGenerateShortCode ==
    /\ call.fn = "generate_short_code"
    /\ ~call.done
    /\ call' = [call EXCEPT !.done = TRUE,
                            !.result = generate_short_code(call.arg.length, call.arg.draws)]
    /\ UNCHANGED <<urls, now, pc, req, url_record, attempt, incCalls>>

\* the call returns
CallNormalizeUrl ==
    /\ call.fn = "normalize_url"
    /\ ~call.done
    /\ call' = [call EXCEPT !.done = TRUE, !.result = normalize_url(call.arg)]
    /\ UNCHANGED <<urls, now, pc, req, url_record, attempt, incCalls>>

\* the call returns, having read the clock
CallIsUrlExpired ==
    /\ call.fn = "is_url_expired"
    /\ ~call.done
    /\ call' = [call EXCEPT !.done = TRUE, !.result = is_url_expired(call.arg, now)]
    /\ UNCHANGED <<urls, now, pc, req, url_record, attempt, incCalls>>

\* the call returns
CallCreateShortUrl ==
    /\ call.fn = "create_short_url"
    /\ ~call.done
    /\ call' = [call EXCEPT !.done = TRUE,
                            !.result = create_short_url(call.arg.base_url,
                                                        call.arg.short_code)]
    /\ UNCHANGED <<urls, now, pc, req, url_record, attempt, incCalls>>

\* the functions of utils/shortener.py called on their own while the clock
\* runs
NextShortener ==
    \/ Tick
    \/ CallValidateShortCode
    \/ CallGenerateShortCode
    \/ CallNormalizeUrl
    \/ CallIsUrlExpired
    \/ CallCreateShortUrl

SpecShortener == InitShortener /\ [][NextShortener]_vars

\* ------------------------------------------------------------------ claims
\* the rows of the table that carry the code
RowsOf(code) == {i \in DOMAIN urls : urls[i].short_code = code}
\* worker w's step stores a row (it leaves the INSERT of create_url)
Inserts(w) == pc[w] # "created" /\ pc'[w] = "created"
\* worker w's step runs the UPDATE of update_url
Updates(w) == pc[w] # "updated" /\ pc'[w] = "updated"

Conflict == Http(409, "Short code already exists", NoRecord)

\* C1: in every reachable state no two rows, active or soft-deleted, carry
\* the same short_code.
C1_UniqueShortCode ==
    \A i, j \in DOMAIN urls : i # j => urls[i].short_code # urls[j].short_code

\* C1 witness: the table holds a soft-deleted row and a worker stands
\* before the INSERT of a code that a row already carries.
C1_Witness ==
    \E w \in Workers, i \in DOMAIN urls :
        /\ pc[w] = "insert"
        /\ urls[i].short_code = req[w].short_code
        /\ urls[i].is_active = 0

\* C2: a create that passed the existence pre-check and whose INSERT then
\* finds the code taken by a concurrent create answers the same 409
\* "already exists" as the pre-check does.
C2_RaceLoserGetsConflict ==
    \A w \in Workers :
        (/\ pc[w] = "insert"
         /\ req[w].op = "shorten"
         /\ ~UniqueOk(urls, req[w].short_code))
        => InsertResponse(urls, req[w]) = Conflict

\* C3: once a delete of a code has succeeded (its row is inactive),
\* get_by_code reports not-found, delete_url returns False and the DELETE
\* endpoint answers 404.
C3_SecondDeleteNotFound ==
    \A code \in AllCodes :
        (\E i \in RowsOf(code) : urls[i].is_active = 0)
        => /\ get_url_by_code(urls, code) = NoRecord
           /\ delete_url(urls, code) = FALSE
           /\ DeleteResponse(urls, code) = NotFound

\* C4: an active row's clicks equal the number of increment_clicks calls
\* made on its code since it was created (it starts at 0), whatever the
\* interleaving of the calls.
C4_NoLostIncrement ==
    \A i \in DOMAIN urls :
        urls[i].is_active = 1 => urls[i].clicks = incCalls[urls[i].short_code]

\* C4 witness: a redirect that read the row at clicks 0 stands before its
\* increment while another increment of the same active row has already
\* been counted.
C4_Witness ==
    \E w \in Workers, i \in DOMAIN urls :
        /\ pc[w] = "increment"
        /\ urls[i].short_code = req[w].short_code
        /\ urls[i].is_active = 1
        /\ url_record[w].clicks = 0
        /\ urls[i].clicks = 1

\* C5: once a row is inactive its clicks never change again.
C5_InactiveClicksFrozen ==
    [][\A i \in DOMAIN urls :
          urls[i].is_active = 0 => urls'[i].clicks = urls[i].clicks]_vars

\* C6: an update_url on a code that has no active row leaves every row
\* unchanged.
C6_UpdateOfInactiveChangesNothing ==
    [][\A w \in Workers :
          (Updates(w) /\ get_url_by_code(urls, req'[w].short_code) = NoRecord)
          => urls' = urls]_vars

\* C7: a create whose custom code is the code of an active row answers 409
\* "already exists"; no create that comes from the custom-code check goes on
\* to an INSERT of such a code, so the table is left as it was.
C7_DuplicateCustomCodeConflict ==
    /\ [](\A code \in AllCodes :
            get_url_by_code(urls, code) # NoRecord
            => ShortenCustomResponse(urls, code) = Conflict)
    /\ [][\A w \in Workers :
            (pc[w] = "idle" /\ pc'[w] = "insert")
            => (get_url_by_code(urls, req'[w].short_code) = NoRecord /\ urls' = urls)]_vars

\* C7 witness: an active row carries a code that a caller may pass as
\* custom code, and the create with it answers 409.
C7_Witness ==
    \E code \in InputCodes :
        /\ get_url_by_code(urls, code) # NoRecord
        /\ ShortenCustomResponse(urls, code).status = 409

\* C8: url_exists(code) is true iff some row, active or soft-deleted,
\* carries the code; a create with a soft-deleted row's code as custom code
\* answers 409, the generation loop never leaves with a candidate that a row
\* carries, and no stored row takes the code of an existing row.
C8_ExistsCoversDeleted ==
    /\ [](\A code \in AllCodes :
            /\ url_exists(urls, code) <=> (RowsOf(code) # {})
            /\ ((\E i \in RowsOf(code) : urls[i].is_active = 0)
                  /\ validate_short_code(code))
               => ShortenCustomResponse(urls, code) = Conflict)
    /\ [][\A w \in Workers :
            /\ (pc[w] = "generate" /\ pc'[w] = "insert")
               => RowsOf(req'[w].short_code) = {}
            /\ Inserts(w)
               => \A i \in DOMAIN urls : urls[i].short_code # req'[w].short_code]_vars

\* C8 witness: a generated candidate is carried by a soft-deleted row only,
\* while a worker is in the generation loop after a collision.
C8_Witness ==
    \E w \in Workers, c \in GenCodes :
        /\ pc[w] = "generate"
        /\ attempt[w] > 0
        /\ RowsOf(c) # {}
        /\ \A i \in RowsOf(c) : urls[i].is_active = 0

\* C9: right after create_url(url, code) has stored its row,
\* get_url_by_code(code) returns a row with that code and url, clicks 0 and
\* is_active 1.
C9_CreateThenGet ==
    [][\A w \in Workers :
          Inserts(w) =>
            LET rec == get_url_by_code(urls', req'[w].short_code)
            IN  /\ rec # NoRecord
                /\ rec.short_code = req'[w].short_code
                /\ rec.original_url = req'[w].original_url
                /\ rec.clicks = 0
                /\ rec.is_active = 1]_vars

\* C9 witness: a create has stored its row and the lookup of its code
\* returns it, fresh.
C9_Witness ==
    \E w \in Workers :
        /\ pc[w] = "created"
        /\ get_url_by_code(urls, req[w].short_code) # NoRecord
        /\ get_url_by_code(urls, req[w].short_code).original_url = req[w].original_url
        /\ get_url_by_code(urls, req[w].short_code).clicks = 0

\* C10: a row whose is_active is 0 keeps is_active 0 in every later state.
C10_NeverReactivated ==
    [][\A i \in DOMAIN urls :
          urls[i].is_active = 0 => (i \in DOMAIN urls' /\ urls'[i].is_active = 0)]_vars

\* C10 witness: a soft-deleted row that has been clicked, with the UPDATE of
\* an update_url on its code just run.
C10_Witness ==
    \E w \in Workers, i \in DOMAIN urls :
        /\ urls[i].is_active = 0
        /\ urls[i].clicks > 0
        /\ pc[w] = "updated"
        /\ req[w].short_code = urls[i].short_code

\* C11: a row's clicks is 0 when the row is stored, is never negative, never
\* decreases, and changes only in a step of increment_clicks.
C11_ClicksOnlyIncremented ==
    /\ [](\A i \in DOMAIN urls : urls[i].clicks >= 0)
    /\ [][/\ \A i \in DOMAIN urls : urls'[i].clicks >= urls[i].clicks
          /\ (\E i \in DOMAIN urls : urls'[i].clicks # urls[i].clicks)
             => incCalls' # incCalls
          /\ \A i \in DOMAIN urls' \ DOMAIN urls : urls'[i].clicks = 0]_vars

\* C11 witness: a row that has been clicked carries the url of an update_url
\* whose UPDATE has just run on it.
C11_Witness ==
    \E w \in Workers, i \in DOMAIN urls :
        /\ pc[w] = "updated"
        /\ req[w].short_code = urls[i].short_code
        /\ urls[i].original_url = req[w].original_url
        /\ urls[i].clicks > 0

\* C12: a create without custom code draws at most max_attempts (10)
\* candidates; it goes on to the INSERT with the first candidate that no row
\* carries and stores a row of that code; when the tenth candidate is taken
\* too it answers 500 and the table is as it was.
C12_GenerateAtMostTenCandidates ==
    /\ [](\A w \in Workers : attempt[w] < max_attempts)
    /\ [][\A w \in Workers :
            /\ (pc[w] = "generate" /\ pc'[w] = "insert")
               => /\ ~url_exists(urls, req'[w].short_code)
                  /\ GenerateResponse(urls, req'[w].short_code, attempt[w]) = Proceed
                  /\ urls' = urls
            /\ (pc[w] = "generate" /\ pc'[w] = "generate" /\ attempt'[w] # attempt[w])
               => /\ attempt'[w] = attempt[w] + 1
                  /\ \E c \in GenCodes : url_exists(urls, c)
                  /\ urls' = urls
            /\ (pc[w] = "generate" /\ pc'[w] = "idle")
               => /\ attempt[w] + 1 = max_attempts
                  /\ \E c \in GenCodes :
                        /\ url_exists(urls, c)
                        /\ GenerateResponse(urls, c, attempt[w]) = Exhausted
                  /\ Exhausted.status = 500
                  /\ urls' = urls
            /\ (Inserts(w) /\ req[w].op = "shorten")
               => /\ Len(urls') = Len(urls) + 1
                  /\ urls'[Len(urls')].short_code = req[w].short_code]_vars

\* C12 witness: nine candidates were found taken and the worker draws its
\* tenth while a row carries a code of the generator.
C12_Witness ==
    \E w \in Workers :
        /\ pc[w] = "generate"
        /\ attempt[w] = max_attempts - 1
        /\ \E c \in GenCodes : url_exists(urls, c)

\* C13: a create whose custom code has a length outside
\* [min_short_code_length, max_short_code_length] or holds a character
\* outside [A-Za-z0-9] is answered 400 or 422, never reaches the INSERT and
\* stores no row.
C13_MalformedCustomCodeRejected ==
    [][\A w \in Workers :
          LET WellFormed(code) ==
                  /\ Len(code) >= min_short_code_length
                  /\ Len(code) <= max_short_code_length
                  /\ \A i \in 1..Len(code) : Char(code, i) \in ALPHABET
          IN  /\ (pc[w] = "idle" /\ pc'[w] = "insert")
                 => WellFormed(req'[w].short_code)
              /\ (Inserts(w) /\ req[w].op = "shorten")
                 => WellFormed(urls'[Len(urls')].short_code)
              /\ \A code \in InputCodesNewline :
                    ~WellFormed(code)
                    => ShortenCustomResponse(urls, code).kind = "http"
                       /\ ShortenCustomResponse(urls, code).status \in {400, 422}]_vars

\* C14: get_url_by_code(code) returns a row exactly when an active row of
\* that code exists; what it returns is that row as the table holds it now,
\* never a soft-deleted one; the lookup of a redirect leaves the table as
\* it was.
C14_GetByCodeReturnsActiveRow ==
    /\ [](\A code \in AllCodes :
            LET rec == get_url_by_code(urls, code)
            IN  /\ (rec # NoRecord)
                   <=> \E i \in DOMAIN urls :
                          urls[i].short_code = code /\ urls[i].is_active = 1
                /\ rec # NoRecord
                   => /\ \E i \in DOMAIN urls : urls[i] = rec
                      /\ rec.short_code = code
                      /\ rec.is_active = 1)
    /\ [][\A w \in Workers :
            (pc[w] = "idle" /\ pc'[w] = "increment")
            => /\ urls' = urls
               /\ url_record'[w] = get_url_by_code(urls, req'[w].short_code)
               /\ url_record'[w] # NoRecord]_vars

\* C14 witness: a redirect's lookup returned a clicked row while it was
\* active; the row has been soft-deleted since and the lookup finds nothing.
C14_Witness ==
    \E w \in Workers, i \in DOMAIN urls :
        /\ pc[w] = "increment"
        /\ url_record[w].id = urls[i].id
        /\ url_record[w].is_active = 1
        /\ url_record[w].clicks > 0
        /\ urls[i].is_active = 0
        /\ get_url_by_code(urls, urls[i].short_code) = NoRecord

\* C15: the UPDATE of update_url on a code whose row is active replaces that
\* row's original_url and nothing else: the row's other fields, every other
\* row and the number of rows stay, and the record read back carries the new
\* original_url.
C15_UpdateReplacesOnlyOriginalUrl ==
    [][\A w \in Workers :
          (Updates(w) /\ get_url_by_code(urls, req'[w].short_code) # NoRecord)
          => LET r == req'[w]
                 rec == get_url_by_code(urls', r.short_code)
             IN  /\ DOMAIN urls' = DOMAIN urls
                 /\ \A i \in DOMAIN urls :
                       urls'[i] = IF urls[i].short_code = r.short_code
                                  THEN [urls[i] EXCEPT !.original_url = r.original_url]
                                  ELSE urls[i]
                 /\ rec # NoRecord
                 /\ rec.original_url = r.original_url
                 /\ UpdateRereadResponse(urls', r) =
                       IF r.op \in EndpointOps
                       THEN Http(200, "", UpdateBody(r, rec))
                       ELSE Returned(rec)]_vars

\* C15 witness: the UPDATE has run on an active clicked row, which now
\* carries the request's url, next to a row of another code and another url.
C15_Witness ==
    \E w \in Workers, i, j \in DOMAIN urls :
        /\ pc[w] = "updated"
        /\ urls[i].short_code = req[w].short_code
        /\ urls[i].is_active = 1
        /\ urls[i].clicks > 0
        /\ urls[i].original_url = req[w].original_url
        /\ urls[j].short_code # urls[i].short_code
        /\ urls[j].original_url # urls[i].original_url

\* C16: the UPDATE of increment_clicks for a code no row carries matches no
\* row: the table after it is the table before it.
C16_IncrementOfAbsentCodeIsNoOp ==
    /\ [](\A code \in AllCodes :
            RowsOf(code) = {} => SqlIncrementClicks(urls, code) = urls)
    /\ [][\A code \in AllCodes :
            (RowsOf(code) = {} /\ incCalls'[code] # incCalls[code]) => FALSE]_vars

\* C16 witness: the table holds a clicked row and a code the store accepts
\* has no row.
C16_Witness ==
    \E code \in AllCodes, i \in DOMAIN urls :
        /\ validate_short_code(code)
        /\ RowsOf(code) = {}
        /\ urls[i].clicks > 0
        /\ urls[i].clicks < MaxClicks

\* C17: a redirect of a code whose row is active answers 302 with the
\* original_url that row holds when it is looked up, and its
\* increment_clicks raises the row's clicks by exactly one and changes
\* nothing else; the clicks of an active row therefore equal the number of
\* redirects and increments made on it.
C17_RedirectCountsOneClick ==
    /\ [](\A i \in DOMAIN urls :
            urls[i].is_active = 1 => incCalls[urls[i].short_code] - urls[i].clicks = 0)
    /\ [][\A w \in Workers :
            /\ (pc[w] = "idle" /\ pc'[w] = "increment")
               => \E i \in DOMAIN urls :
                     /\ urls[i].short_code = req'[w].short_code
                     /\ urls[i].is_active = 1
                     /\ RedirectResponse(url_record'[w]).status = 302
                     /\ RedirectResponse(url_record'[w]).body.location = urls[i].original_url
            /\ (pc[w] = "increment" /\ pc'[w] = "idle")
               => /\ RowsOf(req[w].short_code) # {}
                  /\ DOMAIN urls' = DOMAIN urls
                  /\ \A i \in DOMAIN urls :
                        urls'[i] = IF urls[i].short_code = req[w].short_code
                                   THEN [urls[i] EXCEPT !.clicks = @ + 1]
                                   ELSE urls[i]]_vars

\* C17 witness: two redirects of an active row are done, the row counts two
\* clicks, and a third redirect has read the row's url.
C17_Witness ==
    \E w \in Workers, i \in DOMAIN urls :
        /\ urls[i].is_active = 1
        /\ urls[i].clicks >= 2
        /\ incCalls[urls[i].short_code] = urls[i].clicks
        /\ pc[w] = "increment"
        /\ url_record[w] = urls[i]

\* C18: for a code that validate_short_code rejects, or that no row carries,
\* redirect, info, update and delete answer 404 "Short URL not found"; the
\* table stays as it is and no handler goes on to its UPDATE, so no click is
\* counted.
C18_UnknownCodeNotFound ==
    /\ [](\A code \in AllCodes :
            (~validate_short_code(code) \/ RowsOf(code) = {})
            => /\ NotFound.status = 404
               /\ RedirectStartResponse(urls, code) = NotFound
               /\ InfoResponse(urls, code) = NotFound
               /\ PutStartResponse(urls, code) = NotFound
               /\ DeleteResponse(urls, code) = NotFound
               /\ SqlDelete(urls, code) = urls
               /\ SqlIncrementClicks(urls, code) = urls)
    /\ [][\A w \in Workers :
            (pc[w] = "idle" /\ pc'[w] \in {"increment", "update"})
            => /\ validate_short_code(req'[w].short_code)
               /\ RowsOf(req'[w].short_code) # {}]_vars

\* C18 witness: the table holds an active row while a request code the store
\* accepts has no row and another request code is rejected by
\* validate_short_code.
C18_Witness ==
    \E code, bad \in InputCodes, i \in DOMAIN urls :
        /\ validate_short_code(code)
        /\ RowsOf(code) = {}
        /\ ~validate_short_code(bad)
        /\ urls[i].is_active = 1
        /\ \E w \in Workers : pc[w] = "idle"

\* C19: every list get_all_urls may return holds each active row exactly
\* once and no soft-deleted row, and runs from the latest created_at to the
\* earliest.
C19_ListIsActiveRowsNewestFirst ==
    /\ get_all_urls(urls) # {}
    /\ \A result \in get_all_urls(urls) :
          /\ \A i \in DOMAIN urls :
                urls[i].is_active = 1
                => Cardinality({k \in DOMAIN result : result[k] = urls[i]}) = 1
          /\ \A k \in DOMAIN result :
                /\ result[k].is_active = 1
                /\ \E i \in DOMAIN urls : urls[i] = result[k]
          /\ \A k, l \in DOMAIN result :
                k < l => result[k].created_at >= result[l].created_at

\* C19 witness: two active rows were created at different times and the
\* listing returns the later one first.
C19_Witness ==
    /\ Len(urls) >= 2
    /\ urls[1].is_active = 1
    /\ urls[2].is_active = 1
    /\ urls[1].created_at < urls[2].created_at
    /\ urls[2].clicks > 0
    /\ \A result \in get_all_urls(urls) : result[1] = urls[2] /\ result[2] = urls[1]

\* C20: validate_short_code(code) returns True exactly when code is
\* non-empty, its length lies in [min_short_code_length,
\* max_short_code_length] and each of its characters is in [A-Za-z0-9].
C20_ValidateShortCodeContract ==
    (call.fn = "validate_short_code" /\ call.done)
    => (call.result
        <=> /\ call.arg # ""
            /\ Len(call.arg) >= min_short_code_length
            /\ Len(call.arg) <= max_short_code_length
            /\ \A i \in 1..Len(call.arg) : Char(call.arg, i) \in ALPHABET)

\* C21: a call that answers with an error has left the table as it was when
\* the call began: a failed INSERT stores nothing, and a call whose INSERT
\* or UPDATE has been committed does not answer with an error.
C21_ErrorLeavesTableUnchanged ==
    [][\A w \in Workers :
          LET IsError(resp) ==
                  \/ resp.kind = "raise"
                  \/ resp.kind = "http" /\ resp.status >= 400
          IN  /\ (pc[w] = "insert" /\ pc'[w] = "idle")
                 => IsError(InsertResponse(urls, req[w])) /\ urls' = urls
              /\ (pc[w] = "created" /\ pc'[w] = "idle")
                 => ~IsError(CreateRereadResponse(urls, req[w]))
              /\ (pc[w] = "updated" /\ pc'[w] = "idle")
                 => ~IsError(UpdateRereadResponse(urls, req[w]))]_vars

\* C22: an active row is returned by get_url_by_code, lets a redirect go on
\* to its increment and is shown by info, whether or not the clock has
\* passed its expires_at; the redirect's increment counts the click; and no
\* step changes the expires_at of a stored row.
C22_ExpirationNeverGates ==
    /\ [](\A i \in DOMAIN urls :
            urls[i].is_active = 1
            => /\ get_url_by_code(urls, urls[i].short_code) = urls[i]
               /\ RedirectStartResponse(urls, urls[i].short_code) = Proceed
               /\ InfoResponse(urls, urls[i].short_code).status = 200
               /\ InfoResponse(urls, urls[i].short_code).body.expires_at = urls[i].expires_at)
    /\ [][/\ \A i \in DOMAIN urls : urls'[i].expires_at = urls[i].expires_at
          /\ \A w \in Workers :
                (pc[w] = "increment" /\ pc'[w] = "idle")
                => \A i \in RowsOf(req[w].short_code) :
                      urls'[i].clicks = urls[i].clicks + 1]_vars

\* C22 witness: an active row that was already expired when it was created
\* has been clicked, and a redirect has just looked it up again.
C22_Witness ==
    \E w \in Workers, i \in DOMAIN urls :
        /\ urls[i].is_active = 1
        /\ is_url_expired(urls[i].expires_at, urls[i].created_at)
        /\ is_url_expired(urls[i].expires_at, now)
        /\ urls[i].clicks > 0
        /\ pc[w] = "increment"
        /\ url_record[w] = urls[i]

\* C23: no step changes the id, short_code or created_at of a stored row,
\* and a row that a step adds carries an id greater than the id of every
\* row stored before it.
C23_IdentityFieldsImmutable ==
    [][/\ \A i \in DOMAIN urls :
             /\ i \in DOMAIN urls'
             /\ urls'[i].id = urls[i].id
             /\ urls'[i].short_code = urls[i].short_code
             /\ urls'[i].created_at = urls[i].created_at
       /\ \A j \in DOMAIN urls' \ DOMAIN urls :
             \A i \in DOMAIN urls : urls'[j].id > urls[i].id]_vars

\* C23 witness: the first row has been clicked and soft-deleted, and a row
\* created later stands after it with a greater id.
C23_Witness ==
    /\ Len(urls) >= 2
    /\ urls[1].is_active = 0
    /\ urls[1].clicks > 0
    /\ urls[2].created_at > urls[1].created_at
    /\ urls[2].id > urls[1].id

\* C24: the (id, short_code) pairs of the table only grow, and a row that is
\* inactive is still stored, with the same id and code and still inactive,
\* after every step.
C24_RowsNeverErased ==
    [][/\ {<<urls[i].id, urls[i].short_code>> : i \in DOMAIN urls}
             \subseteq {<<urls'[j].id, urls'[j].short_code>> : j \in DOMAIN urls'}
       /\ Len(urls') >= Len(urls)
       /\ \A i \in DOMAIN urls :
             urls[i].is_active = 0
             => \E j \in DOMAIN urls' :
                   /\ urls'[j].id = urls[i].id
                   /\ urls'[j].short_code = urls[i].short_code
                   /\ urls'[j].is_active = 0]_vars

\* C24 witness: a soft-deleted row is still stored while the UPDATE of an
\* update_url on its code has run and another row has been created.
C24_Witness ==
    \E w \in Workers, i, j \in DOMAIN urls :
        /\ urls[i].is_active = 0
        /\ pc[w] = "updated"
        /\ req[w].short_code = urls[i].short_code
        /\ urls[i].original_url = req[w].original_url
        /\ urls[j].id > urls[i].id

\* C25 as stated: for a code whose only row is soft-deleted the existence
\* check reports that the code does not exist.
C25_ExistsOnlyActive ==
    \A code \in AllCodes :
        (RowsOf(code) # {} /\ \A i \in RowsOf(code) : urls[i].is_active = 0)
        => ~url_exists(urls, code)

\* C25 amended: the existence check queries every row: for a code whose only
\* row is soft-deleted it reports that the code exists, although the lookup
\* finds no row, and the pre-check of a create with that custom code answers
\* 409.
C25_ExistsQueriesAllRows ==
    \A code \in AllCodes :
        (RowsOf(code) # {} /\ \A i \in RowsOf(code) : urls[i].is_active = 0)
        => /\ url_exists(urls, code)
           /\ get_url_by_code(urls, code) = NoRecord
           /\ ShortenCustomResponse(urls, code).status = 409

\* C25 witness: the only row of a request's custom code is soft-deleted, the
\* table has room for another row, and the pre-check answers the conflict.
C25_Witness ==
    \E code \in InputCodes :
        /\ RowsOf(code) # {}
        /\ \A i \in RowsOf(code) : urls[i].is_active = 0
        /\ Len(urls) < MaxRows
        /\ ShortenCustomResponse(urls, code) = Conflict
        /\ \A w \in Workers : pc[w] = "idle"

\* C26: generate_short_code(L) with L in [min_short_code_length,
\* max_short_code_length] returns a string of exactly L characters, without
\* a length one of default_short_code_length (6) characters, each character
\* in [A-Za-z0-9]; the call leaves the table and the workers as they were;
\* the candidates of the generation loop are such results.
C26_GeneratedCodeLengthAndAlphabet ==
    /\ GenCodes \subseteq {generate_short_code({}, d) : d \in RandomDraws}
    /\ (call.fn = "generate_short_code" /\ call.done)
       => LET length == call.arg.length
              InBounds == \A n \in length :
                             n >= min_short_code_length /\ n <= max_short_code_length
          IN  /\ length = {} => Len(call.result) = default_short_code_length
              /\ default_short_code_length = 6
              /\ InBounds => \A n \in length : Len(call.result) = n
              /\ InBounds => \A i \in 1..Len(call.result) :
                                Char(call.result, i) \in ALPHABET
              /\ urls = <<>>
              /\ \A w \in Workers : pc[w] = "idle"

\* C26 witness: a call with the longest allowed length has returned a string
\* of that length that mixes cases and digits.
C26_Witness ==
    /\ call.fn = "generate_short_code"
    /\ call.done
    /\ call.arg.length = {max_short_code_length}
    /\ Len(call.result) = max_short_code_length
    /\ Char(call.result, 1) = "Z"
    /\ Char(call.result, 3) = "0"

\* C27: normalize_url(s) is built from the trimmed s, the one stretch of s
\* that has only whitespace before and after it and neither starts nor ends
\* with whitespace: the result is that stretch when it starts with "http://"
\* or "https://", and "https://" followed by it otherwise.
C27_NormalizeUrlContract ==
    (call.fn = "normalize_url" /\ call.done)
    => LET s == call.arg
       IN  \E i \in 1..(Len(s) + 1), j \in 0..Len(s) :
              LET trimmed == SubSeq(s, i, j)
              IN  /\ j >= i - 1
                  /\ \A k \in 1..(i - 1) : Char(s, k) \in Whitespace
                  /\ \A k \in (j + 1)..Len(s) : Char(s, k) \in Whitespace
                  /\ trimmed # ""
                     => /\ Char(s, i) \notin Whitespace
                        /\ Char(s, j) \notin Whitespace
                  /\ call.result =
                        IF \/ StartsWith(trimmed, "http://")
                           \/ StartsWith(trimmed, "https://")
                        THEN trimmed
                        ELSE "https://" \o trimmed

\* C27 witness: a string with whitespace on both sides and no scheme has
\* been trimmed and prefixed.
C27_Witness ==
    /\ call.fn = "normalize_url"
    /\ call.done
    /\ call.arg = " \ta b\r\n"
    /\ call.result = "https://a b"

\* C28: a call of is_url_expired returns False for None and for every
\* string that is no timestamp; for a timestamp (naive, with "Z" or with an
\* offset) of second d it returns True exactly when the clock it reads is
\* later than d, so False when the clock reads d itself.
C28_ExpiredIffClockStrictlyLater ==
    [][(call.fn = "is_url_expired" /\ ~call.done /\ call'.done)
       => LET Timestamps(d) ==
                  {IsoMinute \o ToString(d) \o z : z \in {"", "Z", "+00:00"}}
          IN  /\ \A d \in 0..9 :
                    call.arg \in Timestamps(d) => (call'.result = (now > d))
              /\ (\A d \in 0..9 : call.arg \notin Timestamps(d))
                 => call'.result = FALSE
              /\ call.arg = NULL => call'.result = FALSE]_vars

\* C28 witness: the test has returned True for a timestamp given with "Z"
\* that the clock has passed.
C28_Witness ==
    /\ call.fn = "is_url_expired"
    /\ call.done
    /\ call.arg = IsoMinute \o "0Z"
    /\ call.result = TRUE
    /\ now > 0

\* C29: whatever deletes run between the write and the re-read of a request,
\* POST /shorten answers with the created record and PUT /{code} with the
\* updated record or 404; neither answers through the handler of uncaught
\* exceptions because the row it reads back is inactive.
C29_RereadNeverFailsInternally ==
    [][\A w \in Workers :
          /\ (pc[w] = "created" /\ pc'[w] = "idle" /\ req[w].op = "shorten")
             => /\ CreateRereadResponse(urls, req[w]).exc = "none"
                /\ CreateRereadResponse(urls, req[w]).body.short_code = req[w].short_code
          /\ (pc[w] = "updated" /\ pc'[w] = "idle" /\ req[w].op = "put")
             => /\ UpdateRereadResponse(urls, req[w]).exc = "none"
                /\ UpdateRereadResponse(urls, req[w]).status \in {200, 404}]_vars

\* C30: delete_url on a code whose row is active returns True and its UPDATE
\* yields the table in which that row's is_active is 0 and every other
\* field of it and every other row are as before; a step in which a row
\* becomes inactive changes nothing else in the table.
C30_SoftDeleteChangesOnlyIsActive ==
    /\ [](\A i \in DOMAIN urls :
            urls[i].is_active = 1
            => /\ delete_url(urls, urls[i].short_code) = TRUE
               /\ DeleteResponse(urls, urls[i].short_code).status = 200
               /\ SqlDelete(urls, urls[i].short_code) = [urls EXCEPT ![i].is_active = 0])
    /\ [][\A i \in DOMAIN urls :
            urls'[i].is_active # urls[i].is_active
            => urls' = [urls EXCEPT ![i].is_active = 0]]_vars

\* C30 witness: a clicked row has been soft-deleted and keeps its clicks,
\* next to an active row of another code.
C30_Witness ==
    \E i, j \in DOMAIN urls :
        /\ urls[i].is_active = 0
        /\ urls[i].clicks > 0
        /\ urls[i].clicks = incCalls[urls[i].short_code]
        /\ urls[j].is_active = 1
        /\ urls[j].short_code # urls[i].short_code

\* C31: what a call of normalize_url has returned is a fixed point of
\* normalize_url: normalising it again returns it unchanged.
C31_NormalizeUrlIdempotent ==
    (call.fn = "normalize_url" /\ call.done)
    => /\ normalize_url(call.result) = call.result
       /\ normalize_url(normalize_url(call.arg)) = normalize_url(call.arg)

\* C31 witness: a string with whitespace around an upper-case scheme was
\* changed by the call, and the result is no longer changed.
C31_Witness ==
    /\ call.fn = "normalize_url"
    /\ call.done
    /\ call.arg = "\nHTTP://a.io\t "
    /\ call.result = "https://HTTP://a.io"
    /\ normalize_url(call.result) = call.result

\* C32: create_short_url(base_url, code) is the stretch of base_url up to its
\* last character that is no slash (all of its trailing slashes removed),
\* followed by "/" and the code; and the short_url in the answers of create,
\* update, info and list is create_short_url of the request's base url and
\* the row's code.
C32_ShortUrlIsBaseSlashCode ==
    /\ (call.fn = "create_short_url" /\ call.done)
       => LET b == call.arg.base_url
          IN  \E k \in 0..Len(b) :
                 /\ \A i \in (k + 1)..Len(b) : Char(b, i) = "/"
                 /\ k > 0 => Char(b, k) # "/"
                 /\ call.result = SubSeq(b, 1, k) \o "/" \o call.arg.short_code
    /\ \A code \in GenCodes :
          LET t == SqlInsert(<<>>, "http://a.io/", code, NULL, 0)
              expected == create_short_url(get_base_url(RequestBaseUrl), code)
          IN  /\ expected = "http://testserver/" \o code
              /\ CreateRereadResponse(t, Req("shorten", code, "http://a.io/", NULL)).body.short_url
                    = expected
              /\ UpdateRereadResponse(t, Req("put", code, "http://a.io/", NULL)).body.short_url
                    = expected
              /\ InfoResponse(t, code).body.short_url = expected
              /\ \A answer \in ListResponse(t) : answer.body[1].short_url = expected

\* C32 witness: a base with several trailing slashes has been joined with a
\* code by a single slash.
C32_Witness ==
    /\ call.fn = "create_short_url"
    /\ call.done
    /\ call.arg.base_url = "http://h/p///"
    /\ call.arg.short_code = "Zz0Zz0"
    /\ call.result = "http://h/p/Zz0Zz0"

====
